---- MODULE Spec2Model ----
(***************************************************************************)
(* darna: atomic-commit validation over a symbol dependency graph.         *)
(*                                                                         *)
(* The module models                                                       *)
(*   - internal/graph      (DependencyGraph, AddDependency, TransitiveDeps,*)
(*                          TransitiveDependents, AnalyzePackage),         *)
(*   - internal/git        (FileStatus, FilterGoFiles),                    *)
(*   - internal/validator  (ValidateAtomicCommit, FindCommittableSet and   *)
(*                          their helpers).                                *)
(*                                                                         *)
(* Paths are byte strings, written as sequences of character codes, so     *)
(* that prefix tests, suffix tests and Go's bytewise string order are      *)
(* computed, not assumed.  Go's map iteration order is unspecified: every  *)
(* loop over a map is modelled by a choice over all orders.                *)
(***************************************************************************)
EXTENDS Integers, Sequences, FiniteSets, TLC

VARIABLES
    statuses,    \* what `git status --porcelain` reports: rel path -> FileStatus
    pkgs,        \* what the package loader returns for the tree
    dg,          \* the DependencyGraph of the current invocation
    op,          \* the operation that ran last
    arg,         \* its argument (a symbol id, an edge, the dependants flag)
    violations,  \* result of ValidateAtomicCommit
    files,       \* result of FindCommittableSet
    closure,     \* result of TransitiveDeps / TransitiveDependents
    err,         \* error returned by the last operation ("" for nil)
    rounds,      \* the file lists committed so far, one per commit
    unreadable,  \* the paths whose index content `git show :path` cannot read
    overlay,     \* the overlay handed to the package loader: abs path -> content
    exitCode     \* the exit status of the command (-1: no command has exited)

vars == <<statuses, pkgs, dg, op, arg, violations, files, closure, err, rounds,
          unreadable, overlay, exitCode>>

-----------------------------------------------------------------------------
(* Bounds of the model.                                                    *)

\* at most this many edges are added to a graph through AddDependency calls
MaxEdges == 3
\* at most this many resolved references in the function bodies of the tree
MaxUses == 2
\* at most this many paths have an entry in the status listing
MaxChanged == 3

-----------------------------------------------------------------------------
(* Sequences and byte strings.                                             *)

Range(s) == { s[i] : i \in 1..Len(s) }

NoDuplicates(s) == \A i, j \in 1..Len(s) : s[i] = s[j] => i = j

RECURSIVE Perms(_)
\* all orders in which a loop over a Go map may visit the elements of S
Perms(S) ==
    IF S = {} THEN { <<>> }
    ELSE UNION { { <<x>> \o p : p \in Perms(S \ {x}) } : x \in S }

\* strings.HasPrefix
HasPrefix(s, prefix) ==
    /\ Len(prefix) <= Len(s)
    /\ SubSeq(s, 1, Len(prefix)) = prefix

\* strings.HasSuffix
HasSuffix(s, suffix) ==
    /\ Len(suffix) <= Len(s)
    /\ SubSeq(s, Len(s) - Len(suffix) + 1, Len(s)) = suffix

RECURSIVE StrLessFrom(_, _, _)
StrLessFrom(a, b, i) ==
    IF i > Len(a) THEN i <= Len(b)
    ELSE IF i > Len(b) THEN FALSE
    ELSE IF a[i] # b[i] THEN a[i] < b[i]
    ELSE StrLessFrom(a, b, i + 1)

\* Go's `a < b` on strings: bytewise lexicographic order
StrLess(a, b) == StrLessFrom(a, b, 1)

\* Go's `a > b` on strings
StrGreater(a, b) == StrLess(b, a)

SlashStr == << 47 >>             \* "/"
GoSuffix == << 46, 103, 111 >>   \* ".go"

RECURSIVE Clean(_)
\* filepath.Clean on the paths of this model: a trailing separator is dropped
Clean(p) ==
    IF Len(p) > 1 /\ p[Len(p)] = 47 THEN Clean(SubSeq(p, 1, Len(p) - 1)) ELSE p

\* filepath.Abs(filepath.Join(absWorkDir, file))
AbsJoin(absWorkDir, file) == Clean(absWorkDir \o SlashStr \o file)

\* filepath.Rel(absWorkDir, path) for a path below absWorkDir
Rel(absWorkDir, path) ==
    IF HasPrefix(path, absWorkDir \o SlashStr)
    THEN SubSeq(path, Len(absWorkDir) + 2, Len(path))
    ELSE path

-----------------------------------------------------------------------------
(* The working tree of the model.                                          *)

AbsWorkDir == << 47, 119 >>                 \* "/w"

FileA  == << 97, 46, 103, 111 >>            \* "a.go"
FileB  == << 98, 46, 103, 111 >>            \* "b.go"
FileC  == << 100, 47, 99, 46, 103, 111 >>   \* "d/c.go"
DirD   == << 100, 47 >>                     \* "d/", a directory listed as a whole
FileN  == << 110, 46, 109, 100 >>           \* "n.md"

GoFiles == { FileA, FileB, FileC }
Paths == GoFiles \cup { DirD, FileN }

AbsOf(file) == AbsJoin(AbsWorkDir, file)

\* Symbol ids, "pkg/path.Name"
SymA == "p.A"
SymB == "p.B"
SymC == "p/d.C"
SymInit == "p.init"
SymExt == "fmt.Println"          \* defined outside the module: never registered

Ids == { SymA, SymB, SymC, SymInit, SymExt }

-----------------------------------------------------------------------------
(* internal/graph                                                          *)

\* A Go map is a function on the set of its keys; a missing key reads as the
\* zero value.
MapGet(m, k, zero) == IF k \in DOMAIN m THEN m[k] ELSE zero

MapPut(m, k, v) == [ x \in DOMAIN m \cup {k} |-> IF x = k THEN v ELSE m[x] ]

EmptyMap == [ x \in {} |-> {} ]

NewDependencyGraph ==
    [ Symbols |-> EmptyMap, FileSyms |-> EmptyMap,
      OutEdges |-> EmptyMap, InEdges |-> EmptyMap ]

OutOf(g, id) == MapGet(g.OutEdges, id, {})
InOf(g, id) == MapGet(g.InEdges, id, {})

\* a bug AddDependency could have: the reverse index is not maintained
AddDependencyForwardOnly(g, from, to) ==
    [ g EXCEPT !.OutEdges = MapPut(g.OutEdges, from, OutOf(g, from) \cup {to}) ]

\* a bug AddDependency could have: a self-edge is rejected
AddDependencyNoSelfEdge(g, from, to) ==
    IF from = to THEN g
    ELSE [ g EXCEPT
            !.OutEdges = MapPut(g.OutEdges, from, OutOf(g, from) \cup {to}),
            !.InEdges  = MapPut(g.InEdges, to, InOf(g, to) \cup {from}) ]

AddDependency(g, from, to) ==
    [ g EXCEPT
        !.OutEdges = MapPut(g.OutEdges, from, OutOf(g, from) \cup {to}),
        !.InEdges  = MapPut(g.InEdges, to, InOf(g, to) \cup {from}) ]

RECURSIVE DfsFrom(_, _, _)
RECURSIVE DfsEach(_, _, _)
\* dfs(id) of TransitiveDeps/TransitiveDependents over the edge map `edges`,
\* started with `result` already visited: the set of lists it can leave in
\* `result`, one per order in which the edge maps can be iterated.
DfsFrom(edges, result, id) ==
    IF id \in Range(result) THEN { result }
    ELSE DfsEach(edges, Append(result, id), MapGet(edges, id, {}))

\* the loop `for depID := range edges[id] { dfs(depID) }` with `todo` left
DfsEach(edges, result, todo) ==
    IF todo = {} THEN { result }
    ELSE UNION { UNION { DfsEach(edges, r, todo \ {n}) : r \in DfsFrom(edges, result, n) }
                 : n \in todo }

RECURSIVE BfsFrom(_, _, _)
\* a bug the traversal could have: breadth-first instead of depth-first
BfsFrom(edges, result, frontier) ==
    IF frontier = <<>> THEN { result }
    ELSE LET id == Head(frontier)
             new == MapGet(edges, id, {}) \ (Range(result) \cup Range(frontier))
         IN UNION { BfsFrom(edges, Append(result, id), Tail(frontier) \o p) : p \in Perms(new) }

TransitiveDepsBreadthFirst(g, startID) == BfsFrom(g.OutEdges, <<>>, <<startID>>)

\* a bug the traversal could have: it gives up on a start that lies on a cycle
TransitiveDepsAcyclicOnly(g, startID) ==
    IF \E n \in OutOf(g, startID) : \E r \in DfsFrom(g.OutEdges, <<>>, n) : startID \in Range(r)
    THEN { <<>> }
    ELSE DfsFrom(g.OutEdges, <<>>, startID)

\* the lists TransitiveDeps(startID) can return
TransitiveDeps(g, startID) == DfsFrom(g.OutEdges, <<>>, startID)

\* the lists TransitiveDependents(targetID) can return
TransitiveDependents(g, targetID) == DfsFrom(g.InEdges, <<>>, targetID)

-----------------------------------------------------------------------------
(* Building the graph from a loaded package.                               *)
(*                                                                         *)
(* A package is [PkgPath, Defs, Uses]: Defs is the set of objects of       *)
(* pkg.TypesInfo.Defs, each [id, file, pkgScope] (pkgScope: obj.Parent()   *)
(* is the package scope); Uses is the set of <<callerID, calleeID>> that   *)
(* trackUsages resolves in the bodies of the package's FuncDecls.          *)
(* A package may declare several functions named init, one per file or     *)
(* more; go/types records each in Defs with the package scope as parent,   *)
(* and symbolID gives all of them the id "pkg.init".                       *)

RECURSIVE registerDefinitions(_, _)
\* defs: the objects of pkg.TypesInfo.Defs in the order the map yields them
registerDefinitions(g, defs) ==
    IF defs = <<>> THEN g
    ELSE LET obj == Head(defs)
             sym == [ ID |-> obj.id, File |-> obj.file ]
             next ==
                IF ~obj.pkgScope THEN g
                ELSE [ g EXCEPT
                        !.Symbols = MapPut(g.Symbols, sym.ID, sym),
                        !.FileSyms = MapPut(g.FileSyms, sym.File,
                                        Append(MapGet(g.FileSyms, sym.File, <<>>), sym.ID)) ]
         IN registerDefinitions(next, Tail(defs))

RECURSIVE trackUsages(_, _)
\* one AddDependency per resolved reference (recordUsage)
trackUsages(g, uses) ==
    IF uses = {} THEN g
    ELSE LET u == CHOOSE x \in uses : TRUE
         IN trackUsages(AddDependency(g, u[1], u[2]), uses \ {u})

\* AnalyzePackage, with the order in which Defs is iterated
AnalyzePackage(g, pkg, defs) == trackUsages(registerDefinitions(g, defs), pkg.Uses)

RECURSIVE AnalyzeAll(_, _)
\* `for _, pkg := range pkgs { dg.AnalyzePackage(pkg) }`: the graphs it can build
AnalyzeAll(gs, ps) ==
    IF ps = <<>> THEN gs
    ELSE AnalyzeAll(
            UNION { { AnalyzePackage(g, Head(ps), defs) : defs \in Perms(Head(ps).Defs) }
                    : g \in gs },
            Tail(ps))

BuildGraphs(ps) == AnalyzeAll({ NewDependencyGraph }, ps)

-----------------------------------------------------------------------------
(* What the loader hands to the graph, at the level of go/types and       *)
(* go/ast.                                                                 *)
(*                                                                         *)
(* A types.Object is [Pkg, Name, File, Parent]: Pkg is Pkg().Path() ("" for*)
(* a nil package), File the file of Pos(), Parent is "package" when        *)
(* Parent() is the package scope, "nil" for a method or a struct field     *)
(* (go/types gives those no parent scope) and "local" for a scope inside a *)
(* function.  An ast.FuncDecl is [Name, Recv, Obj, Body]: Recv is          *)
(* [Nil, List], List the receiver type expressions, each a sequence of     *)
(* tokens (<<"*", "T">> for *T); Obj is TypesInfo.Defs[fn.Name]; Body is   *)
(* the set of objects TypesInfo.Uses resolves for the identifiers and the  *)
(* selectors of the body.                                                  *)

TypesObject(pkg, name, file, parent) ==
    [ Pkg |-> pkg, Name |-> name, File |-> file, Parent |-> parent ]

FuncDecl(name, recv, obj, body) ==
    [ Name |-> name, Recv |-> recv, Obj |-> obj, Body |-> body ]

\* fn.Recv == nil
NilRecv == [ Nil |-> TRUE, List |-> <<>> ]

\* a receiver list with one field of the given type expression
RecvOf(typeExpr) == [ Nil |-> FALSE, List |-> << typeExpr >> ]

symbolID(obj) ==
    IF obj.Pkg = "" THEN ""
    ELSE obj.Pkg \o "." \o obj.Name

callerSymbolID(pkgPath, fn) ==
    IF fn.Recv.Nil THEN pkgPath \o "." \o fn.Name
    ELSE IF Len(fn.Recv.List) = 0 THEN ""
    ELSE LET recvType == fn.Recv.List[1]
             \* a pointer receiver: the star is dropped
             inner == IF Head(recvType) = "*" THEN Tail(recvType) ELSE recvType
         IN \* an identifier is a single token
            IF Len(inner) = 1 THEN pkgPath \o "." \o inner[1] \o "." \o fn.Name
            ELSE ""

\* the objects of TypesInfo.Defs as registerDefinitions reads them
DefsOf(objs) ==
    { [ id |-> symbolID(o), file |-> o.File,
        pkgScope |-> o.Pkg # "" /\ o.Parent = "package" ] : o \in objs }

\* the AddDependency calls of trackUsages: one per FuncDecl with a caller id
\* and object of its body with a callee id
UsesOf(pkgPath, decls) ==
    { u \in UNION { { << callerSymbolID(pkgPath, fn), symbolID(o) >> : o \in fn.Body }
                    : fn \in decls } :
        u[1] # "" /\ u[2] # "" }

\* a package with its syntax and type information
LoadedPackage(pkgPath, objs, decls) ==
    [ PkgPath |-> pkgPath, Defs |-> DefsOf(objs), Uses |-> UsesOf(pkgPath, decls),
      TypesDefs |-> objs, Syntax |-> decls ]

-----------------------------------------------------------------------------
(* internal/git                                                            *)

\* a bug FilterGoFiles could have: nothing is filtered out
FilterGoFilesAll(fs) == fs

\* FilterGoFiles: the .go files of a list, in its order
FilterGoFiles(fs) == SelectSeq(fs, LAMBDA f : HasSuffix(f, GoSuffix))

FileStatus(staging, worktree) == [ Staging |-> staging, Worktree |-> worktree ]

\* the byte values of the status listings of the model, as characters
ByteChar ==
    (32 :> " ") @@ (46 :> ".") @@ (47 :> "/") @@ (63 :> "?") @@ (65 :> "A")
    @@ (77 :> "M") @@ (82 :> "R") @@ (97 :> "a") @@ (98 :> "b") @@ (99 :> "c")
    @@ (100 :> "d") @@ (108 :> "l") @@ (111 :> "o")

RECURSIVE SplitSeq(_, _)
\* bytes.SplitSeq(output, []byte{0}): the fields between the NUL bytes, the
\* one after the last NUL included; cur is the field read so far
SplitSeq(output, cur) ==
    IF output = <<>> THEN << cur >>
    ELSE IF Head(output) = 0 THEN << cur >> \o SplitSeq(Tail(output), <<>>)
    ELSE SplitSeq(Tail(output), Append(cur, Head(output)))

RECURSIVE StatusOfEntries(_, _)
\* the loop of GetAllFileStatus over the entries
StatusOfEntries(entries, status) ==
    IF entries = <<>> THEN status
    ELSE LET entry == Head(entries)
         IN StatusOfEntries(Tail(entries),
                IF Len(entry) >= 4
                THEN MapPut(status, SubSeq(entry, 4, Len(entry)),
                            FileStatus(ByteChar[entry[1]], ByteChar[entry[2]]))
                ELSE status)

\* GetAllFileStatus on the output of `git status --porcelain -z`
GetAllFileStatus(output) == StatusOfEntries(SplitSeq(output, <<>>), EmptyMap)

-----------------------------------------------------------------------------
(* internal/validator: violation detection                                 *)

IsStaged(status) == status.Staging # " " /\ status.Staging # "?"

\* a bug the test could have: untracked entries are not counted
IsNotStagedStatusTrackedOnly(status) == status.Worktree # " " /\ status.Staging # "?"

IsNotStagedStatus(status) == status.Worktree # " " \/ status.Staging = "?"

ErrStagedContent == "getting staged content"

\* GetStagedContent: `git show :path`; the content is the index version of
\* the file, or an error when the index content cannot be read
GetStagedContent(path, unread) ==
    IF path \in unread
    THEN [ content |-> <<>>, err |-> ErrStagedContent ]
    ELSE [ content |-> << "index", path >>, err |-> "" ]

\* the test of buildOverlay's first `continue`, negated
IsPartiallyStaged(status) ==
    ~(status.Staging = " " \/ status.Staging = "?" \/ status.Worktree = " ")

\* the partially staged .go entries of a status listing
PartiallyStagedGo(st) ==
    { f \in DOMAIN st : IsPartiallyStaged(st[f]) /\ HasSuffix(f, GoSuffix) }

\* a bug buildOverlay could have: the first failed read ends the loop and
\* the overlay is returned empty
buildOverlayAllOrNothing(absWorkDir, st, unread) ==
    LET keep == { f \in DOMAIN st :
                    /\ IsPartiallyStaged(st[f])
                    /\ HasSuffix(AbsJoin(absWorkDir, f), GoSuffix) }
    IN IF \E f \in keep : GetStagedContent(f, unread).err # ""
       THEN EmptyMap
       ELSE [ p \in { AbsJoin(absWorkDir, f) : f \in keep } |->
               GetStagedContent(CHOOSE f \in keep : AbsJoin(absWorkDir, f) = p, unread).content ]

\* buildOverlay: the map does not depend on the order of the loop
buildOverlay(absWorkDir, st, unread) ==
    LET keep == { f \in DOMAIN st :
                    /\ IsPartiallyStaged(st[f])
                    /\ HasSuffix(AbsJoin(absWorkDir, f), GoSuffix)
                    /\ GetStagedContent(f, unread).err = "" }
    IN [ p \in { AbsJoin(absWorkDir, f) : f \in keep } |->
           GetStagedContent(CHOOSE f \in keep : AbsJoin(absWorkDir, f) = p, unread).content ]

\* categorizeFiles; order: the status map's keys in iteration order
categorizeFiles(absWorkDir, st, order) ==
    [ staged |->
        LET abs == [ i \in 1..Len(order) |-> AbsJoin(absWorkDir, order[i]) ]
            keep == SelectSeq([ i \in 1..Len(order) |-> i ],
                              LAMBDA i : IsStaged(st[order[i]]))
        IN [ k \in 1..Len(keep) |-> abs[keep[k]] ],
      stagedSet |->
        { AbsJoin(absWorkDir, f) : f \in { x \in DOMAIN st : IsStaged(st[x]) } },
      notStagedSet |->
        { AbsJoin(absWorkDir, f) : f \in { x \in DOMAIN st : IsNotStagedStatus(st[x]) } } ]

ensureTrailingSlash(dir) ==
    IF Len(dir) > 0 /\ dir[Len(dir)] # 47 THEN dir \o SlashStr ELSE dir

\* a bug isNotStaged could have: the directory-prefix fallback is missing
isNotStagedExact(file, notStagedSet) == file \in notStagedSet

isNotStaged(file, notStagedSet) ==
    \/ file \in notStagedSet
    \/ \E dir \in notStagedSet : HasPrefix(file, ensureTrailingSlash(dir))

newViolation(file, symID, depFile, depID, absWorkDir) ==
    [ StagedFile |-> Rel(absWorkDir, file), StagedSymbol |-> symID,
      MissingFile |-> Rel(absWorkDir, depFile), MissingSymbol |-> depID ]

\* a bug the check could have: a dependency in the staged set is not exempt
IsViolationAnyFile(g, depID, stagedSet, notStagedSet) ==
    /\ depID \in DOMAIN g.Symbols
    /\ isNotStaged(g.Symbols[depID].File, notStagedSet)

\* a bug the check could have: every dependency outside the staged set counts
IsViolationOutsideStaged(g, depID, stagedSet, notStagedSet) ==
    /\ depID \in DOMAIN g.Symbols
    /\ g.Symbols[depID].File \notin stagedSet

\* the check of findViolations' inner loop (validator.go:136-146)
IsViolation(g, depID, stagedSet, notStagedSet) ==
    /\ depID \in DOMAIN g.Symbols
    /\ g.Symbols[depID].File \notin stagedSet
    /\ isNotStaged(g.Symbols[depID].File, notStagedSet)

\* a bug findViolations could have: it stops at the first violation of a symbol
ViolationsOfDepsFirstOnly(g, file, symID, deps, stagedSet, notStagedSet, absWorkDir) ==
    LET hits == SelectSeq(deps, LAMBDA d : IsViolation(g, d, stagedSet, notStagedSet))
    IN IF hits = <<>> THEN <<>>
       ELSE << newViolation(file, symID, g.Symbols[hits[1]].File, hits[1], absWorkDir) >>

\* the violations one symbol of a staged file adds, for one list of its deps
ViolationsOfDeps(g, file, symID, deps, stagedSet, notStagedSet, absWorkDir) ==
    LET hits == SelectSeq(deps, LAMBDA d : IsViolation(g, d, stagedSet, notStagedSet))
    IN [ k \in 1..Len(hits) |->
            newViolation(file, symID, g.Symbols[hits[k]].File, hits[k], absWorkDir) ]

RECURSIVE FlattenSyms(_, _)
\* the (file, symbol) pairs findViolations visits, in order
FlattenSyms(g, stagedGo) ==
    IF stagedGo = <<>> THEN <<>>
    ELSE LET file == Head(stagedGo)
             syms == MapGet(g.FileSyms, file, <<>>)
         IN [ i \in 1..Len(syms) |-> << file, syms[i] >> ] \o FlattenSyms(g, Tail(stagedGo))

RECURSIVE findViolationsFrom(_, _, _, _, _, _)
findViolationsFrom(g, work, acc, stagedSet, notStagedSet, absWorkDir) ==
    IF work = <<>> THEN { acc }
    ELSE UNION {
            findViolationsFrom(g, Tail(work),
                acc \o ViolationsOfDeps(g, Head(work)[1], Head(work)[2], deps,
                                        stagedSet, notStagedSet, absWorkDir),
                stagedSet, notStagedSet, absWorkDir)
            : deps \in TransitiveDeps(g, Head(work)[2]) }

\* findViolations: the lists it can return (one per order of the edge maps)
findViolations(g, stagedGo, stagedSet, notStagedSet, absWorkDir) ==
    findViolationsFrom(g, FlattenSyms(g, stagedGo), <<>>, stagedSet, notStagedSet, absWorkDir)

-----------------------------------------------------------------------------
(* internal/validator: committable-set selection                           *)

\* a bug getCandidates could have: files with an index change are kept
getCandidatesWithStaged(absWorkDir, st, order) ==
    LET keep == SelectSeq([ i \in 1..Len(order) |-> i ],
                    LAMBDA i : IsNotStagedStatus(st[order[i]]))
    IN [ k \in 1..Len(keep) |-> AbsJoin(absWorkDir, order[keep[k]]) ]

\* getCandidates; order: the status map's keys in iteration order
getCandidates(absWorkDir, st, order) ==
    LET keep == SelectSeq([ i \in 1..Len(order) |-> i ],
                    LAMBDA i : ~IsStaged(st[order[i]]) /\ IsNotStagedStatus(st[order[i]]))
    IN [ k \in 1..Len(keep) |-> AbsJoin(absWorkDir, order[keep[k]]) ]

Swap(s, i, j) == [ s EXCEPT ![i] = s[j], ![j] = s[i] ]

RECURSIVE SortInner(_, _, _)
\* `for j := i + 1; j < len(sorted); j++ { if sorted[i] > sorted[j] { swap } }`
SortInner(s, i, j) ==
    IF j > Len(s) THEN s
    ELSE SortInner(IF StrGreater(s[i], s[j]) THEN Swap(s, i, j) ELSE s, i, j + 1)

RECURSIVE SortOuter(_, _)
SortOuter(s, i) ==
    IF i > Len(s) THEN s ELSE SortOuter(SortInner(s, i, i + 1), i + 1)

\* a bug sortFilesCopy could have: the copy is returned unsorted
sortFilesCopyUnsorted(fs) == fs

sortFilesCopy(fs) == SortOuter(fs, 1)

\* a bug buildChangesetMap could have: files with an index change are left out
buildChangesetMapUnstagedOnly(absWorkDir, st) ==
    { AbsJoin(absWorkDir, f) :
        f \in { x \in DOMAIN st : ~IsStaged(st[x]) /\ IsNotStagedStatus(st[x]) } }

buildChangesetMap(absWorkDir, st) ==
    { AbsJoin(absWorkDir, f) : f \in { x \in DOMAIN st : IsNotStagedStatus(st[x]) } }

RECURSIVE DepsOraclesOver(_, _)
DepsOraclesOver(g, ids) ==
    IF ids = {} THEN { EmptyMap }
    ELSE LET id == CHOOSE x \in ids : TRUE
         IN UNION { { MapPut(f, id, deps) : deps \in TransitiveDeps(g, id) }
                    : f \in DepsOraclesOver(g, ids \ {id}) }

\* what the TransitiveDeps calls of one selection return: symbol id -> list
DepsOracles(g) == DepsOraclesOver(g, DOMAIN g.Symbols)

\* the dependency depID stops `file` from being committed (the body of the
\* inner loops of isIndependent and canCommitWithBase)
Blocks(g, depID, file, allowed, changesetFiles) ==
    /\ depID \in DOMAIN g.Symbols
    /\ g.Symbols[depID].File # file
    /\ g.Symbols[depID].File \notin allowed
    /\ g.Symbols[depID].File \in changesetFiles

\* isIndependent; td: what TransitiveDeps returns for each symbol
isIndependent(g, file, changesetFiles, td) ==
    LET symbols == MapGet(g.FileSyms, file, <<>>)
    IN \A i \in 1..Len(symbols) :
         \A j \in 1..Len(td[symbols[i]]) :
            ~Blocks(g, td[symbols[i]][j], file, {}, changesetFiles)

\* a bug canCommitWithBase could have: every dependant is accepted
canCommitWithBaseAlways(g, file, baseFile, changesetFiles, td) == TRUE

canCommitWithBase(g, file, baseFile, changesetFiles, td) ==
    LET symbols == MapGet(g.FileSyms, file, <<>>)
    IN \A i \in 1..Len(symbols) :
         \A j \in 1..Len(td[symbols[i]]) :
            ~Blocks(g, td[symbols[i]][j], file, {baseFile}, changesetFiles)

\* a bug collectDependantFiles could have: the reverse edges are followed
\* transitively
collectDependantFilesTransitive(g, baseFile, changesetFiles) ==
    LET baseSymbols == MapGet(g.FileSyms, baseFile, <<>>)
        dependents == UNION { UNION { Range(r) \ { baseSymbols[i] }
                                      : r \in DfsFrom(g.InEdges, <<>>, baseSymbols[i]) }
                              : i \in 1..Len(baseSymbols) }
    IN { g.Symbols[d].File :
            d \in { x \in dependents :
                      /\ x \in DOMAIN g.Symbols
                      /\ g.Symbols[x].File # baseFile
                      /\ g.Symbols[x].File \in changesetFiles } }

\* a bug collectDependantFiles could have: the changeset test is missing
collectDependantFilesAnyFile(g, baseFile, changesetFiles) ==
    LET baseSymbols == MapGet(g.FileSyms, baseFile, <<>>)
        dependents == UNION { InOf(g, baseSymbols[i]) : i \in 1..Len(baseSymbols) }
    IN { g.Symbols[d].File :
            d \in { x \in dependents :
                      /\ x \in DOMAIN g.Symbols
                      /\ g.Symbols[x].File # baseFile } }

\* collectDependantFiles with collectSymbolDependants: the keys of dependantFiles
collectDependantFiles(g, baseFile, changesetFiles) ==
    LET baseSymbols == MapGet(g.FileSyms, baseFile, <<>>)
        dependents == UNION { InOf(g, baseSymbols[i]) : i \in 1..Len(baseSymbols) }
    IN { g.Symbols[d].File :
            d \in { x \in dependents :
                      /\ x \in DOMAIN g.Symbols
                      /\ g.Symbols[x].File # baseFile
                      /\ g.Symbols[x].File \in changesetFiles } }

\* filterCommittableWithBase; order: the keys of dependantFiles in iteration order
filterCommittableWithBase(g, order, baseFile, changesetFiles, td) ==
    SelectSeq(order, LAMBDA f : canCommitWithBase(g, f, baseFile, changesetFiles, td))

\* a bug findDirectDependants could have: the dependants are not sorted
findDirectDependantsUnsorted(g, baseFile, changesetFiles, td) ==
    { filterCommittableWithBase(g, order, baseFile, changesetFiles, td)
        : order \in Perms(collectDependantFiles(g, baseFile, changesetFiles)) }

\* findDirectDependants: the lists it can return
findDirectDependants(g, baseFile, changesetFiles, td) ==
    { sortFilesCopy(filterCommittableWithBase(g, order, baseFile, changesetFiles, td))
        : order \in Perms(collectDependantFiles(g, baseFile, changesetFiles)) }

buildCommittableSet(g, baseFile, changesetFiles, includeDependants, td) ==
    IF includeDependants
    THEN { <<baseFile>> \o d : d \in findDirectDependants(g, baseFile, changesetFiles, td) }
    ELSE { <<baseFile>> }

convertToRelativePaths(absPaths, absWorkDir) ==
    [ i \in 1..Len(absPaths) |-> Rel(absWorkDir, absPaths[i]) ]

RECURSIVE FirstIndependentFrom(_, _, _, _, _, _, _)
\* the loop of findCommittableSet over sortedCandidates, from index i
FirstIndependentFrom(g, sorted, i, changesetFiles, absWorkDir, includeDependants, td) ==
    IF i > Len(sorted) THEN { <<>> }
    ELSE IF isIndependent(g, sorted[i], changesetFiles, td)
    THEN { convertToRelativePaths(r, absWorkDir)
            : r \in buildCommittableSet(g, sorted[i], changesetFiles, includeDependants, td) }
    ELSE FirstIndependentFrom(g, sorted, i + 1, changesetFiles, absWorkDir,
                              includeDependants, td)

\* a bug findCommittableSet could have: without an independent candidate the
\* first candidate is returned
findCommittableSetFallback(g, candidates, st, absWorkDir, includeDependants, td) ==
    LET found == FirstIndependentFrom(g, sortFilesCopy(candidates), 1,
                     buildChangesetMap(absWorkDir, st), absWorkDir, includeDependants, td)
    IN IF found = { <<>> } /\ candidates # <<>>
       THEN { << Rel(absWorkDir, sortFilesCopy(candidates)[1]) >> }
       ELSE found

\* findCommittableSet: the lists it can return
findCommittableSet(g, candidates, st, absWorkDir, includeDependants, td) ==
    FirstIndependentFrom(g, sortFilesCopy(candidates), 1,
                         buildChangesetMap(absWorkDir, st), absWorkDir, includeDependants, td)

-----------------------------------------------------------------------------
(* The inputs: status listings and trees.                                  *)

\* the status codes a path of the model can be listed with
StatusOptions(p) ==
    IF p = FileA
    THEN { FileStatus(" ", "M"), FileStatus("M", " "), FileStatus("M", "M") }
    ELSE IF p = FileB THEN { FileStatus(" ", "M"), FileStatus("M", " ") }
    ELSE IF p = FileC THEN { FileStatus("?", "?"), FileStatus("A", " ") }
    ELSE IF p = DirD THEN { FileStatus("?", "?") }
    ELSE { FileStatus("M", " ") }

\* a directory is listed as a whole only when none of its files is listed
StatusDomains ==
    { D \in SUBSET Paths : Cardinality(D) <= MaxChanged /\ ~(DirD \in D /\ FileC \in D) }

StatusMaps ==
    UNION { { st \in [ D -> UNION { StatusOptions(p) : p \in D } ] :
                \A p \in D : st[p] \in StatusOptions(p) }
            : D \in StatusDomains }

Object(id, file) == [ id |-> id, file |-> AbsOf(file), pkgScope |-> TRUE ]

\* package p (a.go, b.go) declares A and B, and init in both files or in none
RootDefs ==
    { { Object(SymA, FileA), Object(SymB, FileB) } \cup inits
        : inits \in { {}, { Object(SymInit, FileA), Object(SymInit, FileB) } } }

\* package p/d (d/c.go) declares C; it cannot import p (p imports it)
SubDefs == { Object(SymC, FileC) }

\* the references the bodies of the model can hold (a body cannot name init)
RootUses(defs) ==
    (({ SymA, SymB } \X { SymA, SymB, SymC }) \cup { << SymA, SymExt >> })
        \cup { u \in { << SymInit, SymB >> } : \E o \in defs : o.id = SymInit }
SubUses == { << SymC, SymExt >> }

Package(path, defs, uses) == [ PkgPath |-> path, Defs |-> defs, Uses |-> uses ]

Trees ==
    UNION { { << Package("p", defs, { u \in uses : u \in RootUses(defs) }),
                 Package("p/d", SubDefs, { u \in uses : u \in SubUses }) >>
              : uses \in { U \in SUBSET (RootUses(defs) \cup SubUses) :
                             Cardinality(U) <= MaxUses } }
            : defs \in RootDefs }

-----------------------------------------------------------------------------
(* Programs with a method, a local variable and a struct field.            *)
(*                                                                         *)
(*   a.go:  type T struct{ B int }                                         *)
(*          func (t T) M() { ... }     or  func (t *T) M() { ... }         *)
(*          func A() { ... }                                               *)
(*   b.go:  func B() {}                                                    *)
(*                                                                         *)
(* The body of A may call t.M(), call B(), name T, read the field B of a   *)
(* T, and declare and read a local variable B; the body of M may call B()  *)
(* and declare and read a local variable B.                                *)

ObjA      == TypesObject("p", "A", AbsOf(FileA), "package")
ObjT      == TypesObject("p", "T", AbsOf(FileA), "package")
ObjM      == TypesObject("p", "M", AbsOf(FileA), "nil")       \* method of T
ObjB      == TypesObject("p", "B", AbsOf(FileB), "package")
ObjFieldB == TypesObject("p", "B", AbsOf(FileA), "nil")       \* field of T
ObjLocalB == TypesObject("p", "B", AbsOf(FileA), "local")    \* B := 1 in a body

ReceiverTypes == { << "T" >>, << "*", "T" >> }

Programs ==
    { [ objs  |-> { ObjA, ObjT, ObjM, ObjB } \cup bodyA \cup bodyM,
        decls |-> { FuncDecl("A", NilRecv, ObjA, bodyA),
                    FuncDecl("M", RecvOf(recv), ObjM, bodyM),
                    FuncDecl("B", NilRecv, ObjB, {}) } ]
      : bodyA \in { U \in SUBSET { ObjM, ObjB, ObjT, ObjFieldB, ObjLocalB } :
                      Cardinality(U) <= MaxUses },
        bodyM \in SUBSET { ObjB, ObjLocalB },
        recv \in ReceiverTypes }

SyntaxTrees == { << LoadedPackage("p", prog.objs, prog.decls) >> : prog \in Programs }

SyntaxStatusMaps ==
    UNION { { st \in [ D -> UNION { StatusOptions(p) : p \in D } ] :
                \A p \in D : st[p] \in StatusOptions(p) }
            : D \in SUBSET { FileA, FileB } }

-----------------------------------------------------------------------------
(* The two commands.  Each invocation is one batch run of a fresh process  *)
(* over the tree: it starts from an empty graph and ends with its result.  *)

ErrStatus == "getting file status"
ErrLoad == "loading packages"

Init ==
    /\ statuses \in StatusMaps
    /\ pkgs \in Trees
    /\ unreadable \in SUBSET PartiallyStagedGo(statuses)
    /\ overlay = EmptyMap
    /\ exitCode = -1
    /\ dg = NewDependencyGraph
    /\ op = "none"
    /\ arg = <<>>
    /\ violations = <<>>
    /\ files = <<>>
    /\ closure = <<>>
    /\ err = ""
    /\ rounds = <<>>

\* the staged lists categorizeFiles can return, each with the two sets
Categorized(absWorkDir, st) ==
    { categorizeFiles(absWorkDir, st, order) : order \in Perms(DOMAIN st) }

\* the candidate lists getCandidates can return
Candidates(absWorkDir, st) ==
    { getCandidates(absWorkDir, st, order) : order \in Perms(DOMAIN st) }

\* a bug main could have: violations do not change the exit status
mainValidateErrorsOnly(vs, e) == IF e # "" THEN 1 ELSE 0

\* main, validation mode: the exit status
mainValidate(vs, e) ==
    IF e # "" THEN 1
    ELSE IF Len(vs) > 0 THEN 1
    ELSE 0

\* main, committable mode: the exit status
mainCommittable(fs, e) == IF e # "" THEN 1 ELSE 0

\* a bug ValidateAtomicCommit could have: on a load error the violations
\* found in the graph of the packages that did load are returned with it
ValidateAtomicCommitRunPartialGraph ==
    /\ \E cat \in Categorized(AbsWorkDir, statuses) :
         \E g \in BuildGraphs(pkgs) :
            /\ FilterGoFiles(cat.staged) # <<>>
            /\ dg' = g
            /\ violations' \in findViolations(g, FilterGoFiles(cat.staged), cat.stagedSet,
                                              cat.notStagedSet, AbsWorkDir)
            /\ err' = ErrLoad
            /\ overlay' = buildOverlay(AbsWorkDir, statuses, unreadable)
    /\ op' = "ValidateAtomicCommit"
    /\ arg' = <<>>
    /\ files' = <<>>
    /\ closure' = <<>>
    /\ UNCHANGED <<statuses, pkgs, rounds, unreadable>>

\* ValidateAtomicCommit (validator.go:25-65).  statusOK: GetAllFileStatus
\* succeeds; loadOK: the loaded packages have no compile errors.
ValidateAtomicCommitRun ==
    /\ \E statusOK \in BOOLEAN :
        IF ~statusOK
        THEN /\ err' = ErrStatus
             /\ violations' = <<>>
             /\ dg' = NewDependencyGraph
             /\ overlay' = EmptyMap
        ELSE \E cat \in Categorized(AbsWorkDir, statuses) :
            LET stagedGo == FilterGoFiles(cat.staged)
            IN IF stagedGo = <<>>
               THEN /\ err' = ""
                    /\ violations' = <<>>
                    /\ dg' = NewDependencyGraph
                    /\ overlay' = EmptyMap
               ELSE \E loadOK \in BOOLEAN :
                    IF ~loadOK
                    THEN /\ err' = ErrLoad
                         /\ violations' = <<>>
                         /\ dg' = NewDependencyGraph
                         /\ overlay' = buildOverlay(AbsWorkDir, statuses, unreadable)
                    ELSE \E g \in BuildGraphs(pkgs) :
                         /\ dg' = g
                         /\ violations' \in findViolations(g, stagedGo, cat.stagedSet,
                                                           cat.notStagedSet, AbsWorkDir)
                         /\ err' = ""
                         /\ overlay' = buildOverlay(AbsWorkDir, statuses, unreadable)
    /\ op' = "ValidateAtomicCommit"
    /\ arg' = <<>>
    /\ files' = <<>>
    /\ closure' = <<>>
    /\ UNCHANGED <<statuses, pkgs, rounds, unreadable>>

\* one invocation of the command in validation mode (main)
ValidateAtomicCommit ==
    /\ op = "none"
    /\ ValidateAtomicCommitRun
    /\ exitCode' = mainValidate(violations', err')

\* FindCommittableSet (validator.go:205-244)
FindCommittableSetRun(includeDependants) ==
    /\ \E statusOK \in BOOLEAN :
        IF ~statusOK
        THEN /\ err' = ErrStatus
             /\ files' = <<>>
             /\ dg' = NewDependencyGraph
             /\ overlay' = EmptyMap
        ELSE \E candidates \in Candidates(AbsWorkDir, statuses) :
            LET candidatesGo == FilterGoFiles(candidates)
            IN IF candidatesGo = <<>>
               THEN /\ err' = ""
                    /\ files' = <<>>
                    /\ dg' = NewDependencyGraph
                    /\ overlay' = EmptyMap
               ELSE \E loadOK \in BOOLEAN :
                    IF ~loadOK
                    THEN /\ err' = ErrLoad
                         /\ files' = <<>>
                         /\ dg' = NewDependencyGraph
                         /\ overlay' = buildOverlay(AbsWorkDir, statuses, unreadable)
                    ELSE \E g \in BuildGraphs(pkgs) :
                         \E td \in DepsOracles(g) :
                         /\ dg' = g
                         /\ files' \in findCommittableSet(g, candidatesGo, statuses,
                                            AbsWorkDir, includeDependants, td)
                         /\ err' = ""
                         /\ overlay' = buildOverlay(AbsWorkDir, statuses, unreadable)
    /\ op' = "FindCommittableSet"
    /\ arg' = << includeDependants >>
    /\ violations' = <<>>
    /\ closure' = <<>>
    /\ UNCHANGED <<statuses, pkgs, rounds, unreadable>>

\* one invocation of the command in committable mode
FindCommittableSet(includeDependants) ==
    /\ op = "none"
    /\ FindCommittableSetRun(includeDependants)
    /\ exitCode' = mainCommittable(files', err')

Next ==
    \/ ValidateAtomicCommit
    \/ \E includeDependants \in BOOLEAN : FindCommittableSet(includeDependants)

Spec == Init /\ [][Next]_vars

-----------------------------------------------------------------------------
(* The commands on trees with several partially staged files, some of     *)
(* which have no readable index content.                                   *)

OverlayStatusOptions ==
    { FileStatus(" ", "M"), FileStatus("M", " "), FileStatus("M", "M") }

OverlayStatusMaps ==
    UNION { [ D -> OverlayStatusOptions ] : D \in SUBSET { FileA, FileB, FileN } }

\* the trees without init functions whose only reference is A -> B
OverlayTrees ==
    { t \in Trees :
        /\ \A o \in t[1].Defs : o.id # SymInit
        /\ t[1].Uses \subseteq { << SymA, SymB >> }
        /\ t[2].Uses = {} }

InitOverlay ==
    /\ statuses \in OverlayStatusMaps
    /\ pkgs \in OverlayTrees
    /\ unreadable \in SUBSET { f \in DOMAIN statuses : IsPartiallyStaged(statuses[f]) }
    /\ overlay = EmptyMap
    /\ exitCode = -1
    /\ dg = NewDependencyGraph
    /\ op = "none"
    /\ arg = <<>>
    /\ violations = <<>>
    /\ files = <<>>
    /\ closure = <<>>
    /\ err = ""
    /\ rounds = <<>>

SpecOverlay == InitOverlay /\ [][Next]_vars

-----------------------------------------------------------------------------
(* The commands on the programs with a method, a local and a field.        *)

InitSyntax ==
    /\ statuses \in SyntaxStatusMaps
    /\ pkgs \in SyntaxTrees
    /\ unreadable \in SUBSET PartiallyStagedGo(statuses)
    /\ overlay = EmptyMap
    /\ exitCode = -1
    /\ dg = NewDependencyGraph
    /\ op = "none"
    /\ arg = <<>>
    /\ violations = <<>>
    /\ files = <<>>
    /\ closure = <<>>
    /\ err = ""
    /\ rounds = <<>>

SpecSyntax == InitSyntax /\ [][Next]_vars

-----------------------------------------------------------------------------
(* GetAllFileStatus on the listings git can print.                         *)
(*                                                                         *)
(* `git status --porcelain -z` prints one record per path, "XY PATH" and a *)
(* NUL; the record of a rename (X = R) is followed by the original path    *)
(* and a NUL.  Records come in path order.                                 *)

OldGo == << 111, 108, 100, 46, 103, 111 >>     \* "old.go", renamed away
OldC  == << 111, 46, 99 >>                     \* "o.c", renamed away

\* a record of the listing; Orig is empty unless the record is a rename
StatusRecord(x, y, path, orig) == [ X |-> x, Y |-> y, Path |-> path, Orig |-> orig ]

\* the records git can print for the path p
RecordsOf(p) ==
    { StatusRecord(32, 77, p, <<>>), StatusRecord(77, 32, p, <<>>),
      StatusRecord(77, 77, p, <<>>), StatusRecord(63, 63, p, <<>>) }
    \cup { StatusRecord(82, 32, p, orig) : orig \in { OldGo, OldC } }

Listings ==
    UNION { { l \in [ 1..n -> UNION { RecordsOf(p) : p \in GoFiles } ] :
                \A i, j \in 1..n : i < j => StrLess(l[i].Path, l[j].Path) }
            : n \in 0..MaxChanged }

RECURSIVE PorcelainZ(_)
\* the bytes git prints for a listing
PorcelainZ(l) ==
    IF l = <<>> THEN <<>>
    ELSE LET r == Head(l)
         IN << r.X, r.Y, 32 >> \o r.Path \o << 0 >>
              \o (IF r.Orig = <<>> THEN <<>> ELSE r.Orig \o << 0 >>)
              \o PorcelainZ(Tail(l))

InitStatus ==
    /\ statuses = EmptyMap
    /\ pkgs = <<>>
    /\ unreadable = {}
    /\ overlay = EmptyMap
    /\ exitCode = -1
    /\ dg = NewDependencyGraph
    /\ op = "none"
    /\ arg = <<>>
    /\ violations = <<>>
    /\ files = <<>>
    /\ closure = <<>>
    /\ err = ""
    /\ rounds = <<>>

GetAllFileStatusCall(l) ==
    /\ op = "none"
    /\ statuses' = GetAllFileStatus(PorcelainZ(l))
    /\ op' = "GetAllFileStatus"
    /\ arg' = << l >>
    /\ UNCHANGED <<pkgs, dg, violations, files, closure, err, rounds, unreadable,
                   overlay, exitCode>>

NextStatus == \E l \in Listings : GetAllFileStatusCall(l)

SpecStatus == InitStatus /\ [][NextStatus]_vars

-----------------------------------------------------------------------------
(* The graph used as a library: any sequence of AddDependency calls on a   *)
(* fresh graph, with closure queries in between (graph tests).             *)

GraphIds == { SymA, SymB, SymC, SymExt }

Edges(g) == { e \in Ids \X Ids : e[2] \in OutOf(g, e[1]) }

InitGraph ==
    /\ statuses = EmptyMap
    /\ pkgs = <<>>
    /\ unreadable = {}
    /\ overlay = EmptyMap
    /\ exitCode = -1
    /\ dg = NewDependencyGraph
    /\ op = "none"
    /\ arg = <<>>
    /\ violations = <<>>
    /\ files = <<>>
    /\ closure = <<>>
    /\ err = ""
    /\ rounds = <<>>

AddDependencyCall(from, to) ==
    /\ to \in OutOf(dg, from) \/ Cardinality(Edges(dg)) < MaxEdges
    /\ dg' = AddDependency(dg, from, to)
    /\ op' = "AddDependency"
    /\ arg' = << from, to >>
    /\ closure' = <<>>
    /\ UNCHANGED <<statuses, pkgs, violations, files, err, rounds, unreadable, overlay, exitCode>>

TransitiveDepsCall(id) ==
    /\ closure' \in TransitiveDeps(dg, id)
    /\ op' = "TransitiveDeps"
    /\ arg' = << id >>
    /\ UNCHANGED <<statuses, pkgs, dg, violations, files, err, rounds, unreadable, overlay, exitCode>>

TransitiveDependentsCall(id) ==
    /\ closure' \in TransitiveDependents(dg, id)
    /\ op' = "TransitiveDependents"
    /\ arg' = << id >>
    /\ UNCHANGED <<statuses, pkgs, dg, violations, files, err, rounds, unreadable, overlay, exitCode>>

NextGraph ==
    \/ \E from, to \in GraphIds : AddDependencyCall(from, to)
    \/ \E id \in GraphIds : TransitiveDepsCall(id)
    \/ \E id \in GraphIds : TransitiveDependentsCall(id)

SpecGraph == InitGraph /\ [][NextGraph]_vars

-----------------------------------------------------------------------------
(* The progressive-commit workflow of the README and of the selector       *)
(* tests: select, `git add` the returned files, then validate or commit,   *)
(* and select again on the same working tree.  It starts with no index     *)
(* change.  A commit leaves the source content as it is: the committed     *)
(* files lose their status entry.                                          *)

NoIndexChange == \A f \in DOMAIN statuses : statuses[f].Staging \in { " ", "?" }

InitLoop == Init /\ NoIndexChange

\* a fresh selector run, at the start or after a commit
SelectRound(includeDependants) ==
    /\ op \in { "none", "Commit" }
    /\ FindCommittableSetRun(includeDependants)
    /\ UNCHANGED exitCode

\* `git add` of the returned files: each is staged in full
StageFiles ==
    /\ op = "FindCommittableSet" /\ err = "" /\ files # <<>>
    /\ statuses' = [ f \in DOMAIN statuses |->
                       IF f \in { files[i] : i \in 1..Len(files) }
                       THEN FileStatus(IF statuses[f].Staging = "?" THEN "A" ELSE "M", " ")
                       ELSE statuses[f] ]
    /\ op' = "Stage"
    /\ UNCHANGED <<pkgs, dg, arg, violations, files, closure, err, rounds, unreadable, overlay,
                   exitCode>>

\* `git commit`: the fully staged files become clean
CommitFiles ==
    /\ op = "Stage"
    /\ statuses' = [ f \in { x \in DOMAIN statuses :
                                ~(IsStaged(statuses[x]) /\ statuses[x].Worktree = " ") }
                       |-> statuses[f] ]
    /\ rounds' = Append(rounds, files)
    /\ op' = "Commit"
    /\ UNCHANGED <<pkgs, dg, arg, violations, files, closure, err, unreadable, overlay, exitCode>>

\* the pre-commit validation of what was staged
ValidateStaged ==
    /\ op = "Stage"
    /\ ValidateAtomicCommitRun
    /\ UNCHANGED exitCode

NextLoop ==
    \/ \E includeDependants \in BOOLEAN : SelectRound(includeDependants)
    \/ StageFiles
    \/ CommitFiles
    \/ ValidateStaged

SpecLoop == InitLoop /\ [][NextLoop]_vars

-----------------------------------------------------------------------------
(* Notions the properties are stated with, defined on the status listing   *)
(* and on the graph's edges without the traversal or the validator.        *)

RECURSIVE ReachSet(_, _)
\* the least set that contains S and is closed under the edges
ReachSet(edges, S) ==
    LET next == S \cup UNION { MapGet(edges, x, {}) : x \in S }
    IN IF next = S THEN S ELSE ReachSet(edges, next)

\* the symbols reachable from id by zero or more forward edges
Reach(g, id) == ReachSet(g.OutEdges, {id})

\* the path of a symbol's defining file, relative to the work dir
FileOf(g, id) == Rel(AbsWorkDir, g.Symbols[id].File)

\* the symbols listed for the file with relative path f
SymsOf(g, f) == Range(MapGet(g.FileSyms, AbsOf(f), <<>>))

StagedFiles == { f \in DOMAIN statuses : statuses[f].Staging \notin { " ", "?" } }

NotStagedEntries ==
    { f \in DOMAIN statuses : statuses[f].Worktree # " " \/ statuses[f].Staging = "?" }

StagedGoFiles == { f \in StagedFiles : HasSuffix(f, GoSuffix) }

\* f lies below the directory that the entry p names
Below(f, p) == HasPrefix(f, IF p[Len(p)] = 47 THEN p ELSE p \o SlashStr)

\* f is not-staged: listed so itself, or below a not-staged entry
NotStagedFile(f) == f \in NotStagedEntries \/ \E p \in NotStagedEntries : Below(f, p)

\* f has no uncommitted change
CleanFile(f) == f \notin DOMAIN statuses /\ ~NotStagedFile(f)

Validated == op = "ValidateAtomicCommit" /\ err = ""

\* C1: findViolations reports (file, s, depFile, d) for exactly the pairs
\* where s is listed for a staged Go file, d is reachable from s, d has a
\* Symbol entry, d's file is not staged and is not-staged (itself or below a
\* not-staged directory); nothing else, and nothing of these is left out.
C1_ExactViolations ==
    Validated =>
        Range(violations) =
            { [ StagedFile |-> f, StagedSymbol |-> s,
                MissingFile |-> FileOf(dg, d), MissingSymbol |-> d ]
              : <<f, s, d>> \in
                  { t \in StagedGoFiles \X (DOMAIN dg.Symbols) \X (DOMAIN dg.Symbols) :
                      /\ t[2] \in SymsOf(dg, t[1])
                      /\ t[3] \in Reach(dg, t[2])
                      /\ FileOf(dg, t[3]) \notin StagedFiles
                      /\ NotStagedFile(FileOf(dg, t[3])) } }

\* a run that reports two violations, one of them for a dependency that the
\* staged symbol does not reference directly
C1_Witness ==
    /\ Validated
    /\ Len(violations) >= 2
    /\ \E i \in 1..Len(violations) :
         violations[i].MissingSymbol \notin OutOf(dg, violations[i].StagedSymbol)

\* C2: with no staged Go file (nothing staged, or only other files staged)
\* ValidateAtomicCommit returns no violation and no error, whatever else the
\* tree holds.
C2_NothingStaged ==
    (op = "ValidateAtomicCommit" /\ err # ErrStatus /\ StagedGoFiles = {}) =>
        (violations = <<>> /\ err = "")

\* a run with only a non-Go file staged, beside an unstaged Go file whose
\* symbol has dependencies
C2_Witness ==
    /\ Validated
    /\ StagedGoFiles = {}
    /\ FileN \in StagedFiles
    /\ \E f \in NotStagedEntries : HasSuffix(f, GoSuffix)
    /\ pkgs[1].Uses # {}

\* C3: no violation names a file without uncommitted changes, and when every
\* dependency of the staged symbols is in a clean or a staged file the result
\* is empty.
C3_CleanDependency ==
    Validated =>
        /\ \A i \in 1..Len(violations) : ~CleanFile(violations[i].MissingFile)
        /\ (\A f \in StagedGoFiles : \A s \in SymsOf(dg, f) :
              \A d \in Reach(dg, s) \cap DOMAIN dg.Symbols :
                 CleanFile(FileOf(dg, d)) \/ FileOf(dg, d) \in StagedFiles)
           => violations = <<>>

\* a staged symbol that references a symbol of another, clean file
C3_Witness ==
    /\ Validated
    /\ violations = <<>>
    /\ \E f \in StagedGoFiles : \E s \in SymsOf(dg, f) :
         \E d \in OutOf(dg, s) \cap DOMAIN dg.Symbols :
            FileOf(dg, d) # f /\ CleanFile(FileOf(dg, d))

\* caller, listed for the staged file M, references sym, which is defined in
\* the untracked file U and nowhere else
DirectDependency(M, U, caller, sym) ==
    /\ M \in StagedGoFiles
    /\ U \in DOMAIN statuses /\ statuses[U].Staging = "?" /\ HasSuffix(U, GoSuffix)
    /\ caller \in SymsOf(dg, M)
    /\ sym \in OutOf(dg, caller) \cap DOMAIN dg.Symbols
    /\ FileOf(dg, sym) = U
    /\ \A f \in GoFiles : sym \in SymsOf(dg, f) <=> f = U

DirectDependencies ==
    { t \in GoFiles \X GoFiles \X Ids \X Ids : DirectDependency(t[1], t[2], t[3], t[4]) }

\* C4 as stated: in the direct-dependency scenario the result is exactly one
\* violation, with stagedFile = M and missingFile = U.
C4_ExactlyOne ==
    Validated =>
        \A t \in DirectDependencies :
            /\ Len(violations) = 1
            /\ violations[1].StagedFile = t[1]
            /\ violations[1].MissingFile = t[2]

\* the caller is the only staged symbol and sym its only dependency
SoleDependency(M, caller, sym) ==
    /\ StagedGoFiles = { M }
    /\ SymsOf(dg, M) = { caller }
    /\ Reach(dg, caller) \cap DOMAIN dg.Symbols \subseteq { caller, sym }

\* C4 (amended): in the direct-dependency scenario the result holds exactly
\* one violation for (M, caller, U, sym); it is the only violation when the
\* caller is the only symbol of the only staged Go file and sym is its only
\* dependency.
C4_DirectDependency ==
    Validated =>
        \A t \in DirectDependencies :
            /\ Cardinality({ i \in 1..Len(violations) :
                    violations[i] = [ StagedFile |-> t[1], StagedSymbol |-> t[3],
                                      MissingFile |-> t[2], MissingSymbol |-> t[4] ] }) = 1
            /\ SoleDependency(t[1], t[3], t[4]) => Len(violations) = 1

\* the scenario with a single staged symbol and its single dependency
C4_Witness ==
    /\ Validated
    /\ \E t \in DirectDependencies : SoleDependency(t[1], t[3], t[4])
    /\ Len(violations) = 1

\* fa and fb each list a symbol that references a symbol of the other; fa is
\* staged, fb is modified and not staged
CircularPair(fa, fb) ==
    /\ fa # fb
    /\ fa \in StagedGoFiles
    /\ fb \in DOMAIN statuses /\ statuses[fb] = FileStatus(" ", "M")
    /\ \E sa \in SymsOf(dg, fa) : \E sb \in SymsOf(dg, fb) :
         sb \in OutOf(dg, sa) /\ FileOf(dg, sb) = fb
    /\ \E sb \in SymsOf(dg, fb) : \E sa \in SymsOf(dg, fa) :
         sa \in OutOf(dg, sb) /\ FileOf(dg, sa) = fa

\* C5: for a circular pair with only fa staged, the run ends and its result
\* holds a violation with stagedFile = fa and missingFile = fb.
C5_CircularPair ==
    Validated =>
        \A fa, fb \in GoFiles :
            CircularPair(fa, fb) =>
                \E i \in 1..Len(violations) :
                    violations[i].StagedFile = fa /\ violations[i].MissingFile = fb

C5_Witness ==
    /\ Validated
    /\ \E fa, fb \in GoFiles : CircularPair(fa, fb)
    /\ violations # <<>>

\* C6: no violation names a staged file as its MissingFile.
C6_NoStagedMissingFile ==
    op = "ValidateAtomicCommit" =>
        \A i \in 1..Len(violations) : violations[i].MissingFile \notin StagedFiles

\* a staged symbol depends on a symbol of another file that is partially
\* staged (in the staged set and in the not-staged set), and the run ends
C6_Witness ==
    /\ Validated
    /\ \E f \in StagedGoFiles : \E s \in SymsOf(dg, f) :
         \E d \in Reach(dg, s) \cap DOMAIN dg.Symbols :
            /\ FileOf(dg, d) # f
            /\ FileOf(dg, d) \in StagedFiles \cap NotStagedEntries

\* the lists ValidateAtomicCommit can return for a status listing and a tree
\* when both are read without error
ValidateRuns(st, ps) ==
    UNION { UNION { findViolations(g, FilterGoFiles(cat.staged), cat.stagedSet,
                                   cat.notStagedSet, AbsWorkDir)
                    : g \in BuildGraphs(ps) }
            : cat \in Categorized(AbsWorkDir, st) }

\* C7: two runs of ValidateAtomicCommit on the same statuses and the same
\* tree report the same set of violations, whatever the iteration orders.
C7_DeterministicSet ==
    Validated => \A run \in ValidateRuns(statuses, pkgs) : Range(run) = Range(violations)

\* the latest position before i whose symbol has a forward edge to a symbol
\* that is not among the first i - 1 elements of list (0 when there is none)
Deepest(g, list, i) ==
    LET seen == { list[k] : k \in 1..(i - 1) }
        open == { j \in 1..(i - 1) : OutOf(g, list[j]) \ seen # {} }
    IN IF open = {} THEN 0 ELSE CHOOSE j \in open : \A k \in open : k <= j

\* list is a depth-first discovery order: every element after the first is
\* a successor of the latest earlier element that still has an undiscovered
\* successor
DepthFirstOrder(g, list) ==
    \A i \in 2..Len(list) :
        /\ Deepest(g, list, i) # 0
        /\ list[i] \in OutOf(g, list[Deepest(g, list, i)])

\* C8: on every graph, cyclic or not, TransitiveDeps(id) returns a list
\* without repetition that starts with id, holds exactly the symbols
\* reachable from id over forward edges, and is in depth-first discovery
\* order.
C8_DepthFirstClosure ==
    op = "TransitiveDeps" =>
        /\ NoDuplicates(closure)
        /\ closure # <<>> /\ closure[1] = arg[1]
        /\ Range(closure) = Reach(dg, arg[1])
        /\ DepthFirstOrder(dg, closure)

\* a closure over a cycle through the start, with a branch: the start has
\* two successors and one of them leads back to it
C8_Witness ==
    /\ op = "TransitiveDeps"
    /\ Cardinality(OutOf(dg, arg[1])) >= 2
    /\ \E n \in OutOf(dg, arg[1]) : n # arg[1] /\ arg[1] \in OutOf(dg, n)
    /\ Len(closure) >= 3

\* C9: after any sequence of AddDependency calls, a forward edge a -> b puts
\* b in TransitiveDeps(a) and a in TransitiveDependents(b).
C9_EdgeInBothClosures ==
    /\ \A a, b \in GraphIds :
         b \in OutOf(dg, a) =>
            /\ \A r \in TransitiveDeps(dg, a) : b \in Range(r)
            /\ \A r \in TransitiveDependents(dg, b) : a \in Range(r)
    /\ op = "TransitiveDeps" => OutOf(dg, arg[1]) \subseteq Range(closure)
    /\ op = "TransitiveDependents" =>
         \A a \in GraphIds : arg[1] \in OutOf(dg, a) => a \in Range(closure)

\* TransitiveDependents(b) returned a symbol a # b that has a forward edge to b
C9_Witness ==
    /\ op = "TransitiveDependents"
    /\ \E a \in GraphIds \ { arg[1] } : arg[1] \in OutOf(dg, a) /\ a \in Range(closure)

\* the candidates of the selection: the .go entries that are not-staged and
\* have no index change
CandidateFiles == { f \in NotStagedEntries \ StagedFiles : HasSuffix(f, GoSuffix) }

\* every dependency of every symbol listed for f has no graph entry, is
\* defined in f, or is defined in a file outside the changeset membership set
Independent(g, f) ==
    \A s \in SymsOf(g, f) : \A d \in Reach(g, s) :
        \/ d \notin DOMAIN g.Symbols
        \/ FileOf(g, d) = f
        \/ FileOf(g, d) \notin NotStagedEntries

Selected == op = "FindCommittableSet" /\ err = "" /\ CandidateFiles # {}

C11_NoneIndependent ==
    (op = "FindCommittableSet" /\ err \notin { ErrStatus, ErrLoad }
        /\ \A f \in CandidateFiles : ~Independent(dg, f))
    => (files = <<>> /\ err = "")

\* two unstaged files whose symbols reference each other, dependants requested
C11_Witness ==
    /\ Selected
    /\ arg = << TRUE >>
    /\ files = <<>>
    /\ { FileA, FileB } \subseteq CandidateFiles
    /\ SymB \in OutOf(dg, SymA) /\ SymA \in OutOf(dg, SymB)

\* the changed Go files: the .go entries of the status listing
ChangedGoFiles == { f \in DOMAIN statuses : HasSuffix(f, GoSuffix) }

\* C12: a file with an index change, a partially staged one included, is no
\* candidate and never the base; when every changed Go file has an index
\* change the result is empty.
C12_StagedNeverBase ==
    (op = "FindCommittableSet" /\ err = "") =>
        /\ files # <<>> => files[1] \notin StagedFiles
        /\ ChangedGoFiles \subseteq StagedFiles => files = <<>>

\* a run over a tree whose changed Go files are a partially staged one and
\* a staged one
C12_Witness ==
    /\ op = "FindCommittableSet" /\ err = ""
    /\ files = <<>>
    /\ \E f \in ChangedGoFiles : statuses[f] = FileStatus("M", "M")
    /\ \E f \in ChangedGoFiles : statuses[f] = FileStatus("M", " ")
    /\ ChangedGoFiles \subseteq StagedFiles

\* f lists a symbol with a dependency whose graph entry names another file
\* that is partially staged
DependsOnPartiallyStaged(g, f) ==
    \E s \in SymsOf(g, f) : \E d \in Reach(g, s) \cap DOMAIN g.Symbols :
        /\ FileOf(g, d) # f
        /\ FileOf(g, d) \in DOMAIN statuses
        /\ statuses[FileOf(g, d)] = FileStatus("M", "M")

\* C13: the changeset membership set holds the partially staged files too: a
\* candidate with a dependency defined in an MM file is not independent and
\* is not the base.
C13_PartiallyStagedBlocks ==
    Selected =>
        \A f \in CandidateFiles :
            DependsOnPartiallyStaged(dg, f) => (files = <<>> \/ files[1] # f)

\* the only candidate depends on a partially staged file; nothing is returned
C13_Witness ==
    /\ Selected
    /\ \E f \in CandidateFiles : DependsOnPartiallyStaged(dg, f)
    /\ Cardinality(CandidateFiles) = 1
    /\ files = <<>>

\* every dependency of every symbol listed for F has no graph entry, or is
\* defined in B, in F, or in a file outside the changeset membership set
SelfContained(g, F, B) ==
    \A s \in SymsOf(g, F) : \A d \in Reach(g, s) :
        \/ d \notin DOMAIN g.Symbols
        \/ FileOf(g, d) \in { F, B }
        \/ FileOf(g, d) \notin NotStagedEntries

\* F lists a symbol whose dependency closure holds a symbol defined in B
ReachesBase(g, F, B) ==
    \E s \in SymsOf(g, F) : \E d \in Reach(g, s) \cap DOMAIN g.Symbols : FileOf(g, d) = B

\* a symbol defined in F references a symbol listed for B directly
ReferencesBase(g, F, B) ==
    \E x \in DOMAIN g.Symbols : FileOf(g, x) = F /\ OutOf(g, x) \cap SymsOf(g, B) # {}

SelectedWithDependants == Selected /\ arg = << TRUE >> /\ files # <<>>

\* C14 as stated: F is returned as a dependant exactly when it is in the
\* changeset, reaches the base transitively, and is self-contained.
C14_TransitiveDependants ==
    SelectedWithDependants =>
        Range(Tail(files)) =
            { F \in NotStagedEntries \ { files[1] } :
                ReachesBase(dg, F, files[1]) /\ SelfContained(dg, F, files[1]) }

\* C14 (amended): F is returned as a dependant exactly when it is in the
\* changeset, a symbol defined in F references a symbol of the base directly,
\* and F is self-contained.
C14_DirectDependants ==
    SelectedWithDependants =>
        Range(Tail(files)) =
            { F \in NotStagedEntries \ { files[1] } :
                ReferencesBase(dg, F, files[1]) /\ SelfContained(dg, F, files[1]) }

\* a dependant is returned, and another changeset file that references the
\* base is left out because it is not self-contained
C14_Witness ==
    /\ SelectedWithDependants
    /\ Len(files) >= 2
    /\ \E F \in NotStagedEntries \ Range(files) :
         ReferencesBase(dg, F, files[1]) /\ ~SelfContained(dg, F, files[1])

C16_OrderedResult ==
    (op = "FindCommittableSet" /\ err = "") =>
        /\ NoDuplicates(files)
        /\ \A i \in 2..(Len(files) - 1) : StrLess(files[i], files[i + 1])
        /\ arg = << FALSE >> => Len(files) <= 1

\* a base that sorts after its two dependants
C16_Witness ==
    /\ SelectedWithDependants
    /\ Len(files) = 3
    /\ StrLess(files[2], files[1])

-----------------------------------------------------------------------------
(* Dependencies between the files of the tree, read from the source: the   *)
(* declarations and the references of the loaded packages.                 *)

TreeDefs == UNION { pkgs[i].Defs : i \in 1..Len(pkgs) }

TreeUses == UNION { pkgs[i].Uses : i \in 1..Len(pkgs) }

\* the references of the tree as an edge map
UsesMap ==
    [ x \in { u[1] : u \in TreeUses } |-> { u[2] : u \in { v \in TreeUses : v[1] = x } } ]

\* the ids declared at package level in the file with relative path f
DefinedIn(f) == { o.id : o \in { x \in TreeDefs : x.file = AbsOf(f) /\ x.pkgScope } }

\* a symbol declared in f references, directly or through other symbols, a
\* symbol declared in g
DependsOn(f, g) ==
    /\ f # g
    /\ \E s \in DefinedIn(f) : \E d \in ReachSet(UsesMap, {s}) \ {s} : d \in DefinedIn(g)

\* the files committed in the rounds so far
Committed == UNION { { rounds[i][j] : j \in 1..Len(rounds[i]) } : i \in 1..Len(rounds) }

\* the loop ran without dependants: every commit was of a single file
SingleFileRounds == \A i \in 1..Len(rounds) : Len(rounds[i]) = 1

\* M and U are the only changed paths, both modified and not staged, M
\* depends on U and U does not depend on M
TwoFileChain(M, U) ==
    /\ M # U
    /\ DOMAIN statuses = { M, U }
    /\ statuses[M] = FileStatus(" ", "M") /\ statuses[U] = FileStatus(" ", "M")
    /\ DependsOn(M, U) /\ ~DependsOn(U, M)

\* U was committed in the first round and M is the only changed path left
AfterChain(M, U) ==
    /\ M # U
    /\ rounds = << << U >> >>
    /\ DOMAIN statuses = { M }
    /\ statuses[M] = FileStatus(" ", "M")
    /\ DependsOn(M, U) /\ ~DependsOn(U, M)

\* C17: two-file chain: with M depending on U and both modified and not
\* staged the selector returns only U; after U is committed a fresh run
\* returns only M.
C17_TwoFileChain ==
    (op = "FindCommittableSet" /\ err = "" /\ arg = << FALSE >>) =>
        \A M, U \in GoFiles :
            /\ (rounds = <<>> /\ TwoFileChain(M, U)) => files = << U >>
            /\ AfterChain(M, U) => files = << M >>

\* the changeset Go files the loop started with
InitialChangeset == CandidateFiles \cup Committed

\* no file of the initial changeset depends on itself through other files
AcyclicChangeset ==
    LET deps == [ f \in InitialChangeset |-> { g \in InitialChangeset : DependsOn(f, g) } ]
    IN \A f \in InitialChangeset : f \notin ReachSet(deps, deps[f])

\* f depends on no other changeset file
IndependentInTree(f) == \A g \in NotStagedEntries \ { f } : ~DependsOn(f, g)

\* C18: progressive-commit loop without dependants, started with nothing
\* staged and an acyclic changeset: every round with a changeset Go file left
\* returns exactly one file, the least independent one, never one returned
\* before; the result is empty only when no changeset Go file is left.
C18_ProgressiveCommit ==
    (op = "FindCommittableSet" /\ err = "" /\ arg = << FALSE >>
        /\ SingleFileRounds /\ AcyclicChangeset) =>
        LET independent == { f \in CandidateFiles : IndependentInTree(f) }
        IN /\ CandidateFiles = {} => files = <<>>
           /\ CandidateFiles # {} =>
                /\ Len(files) = 1
                /\ files[1] \in independent \ Committed
                /\ \A f \in independent \ { files[1] } : StrLess(files[1], f)

\* C19: from a state without index change, staging in full exactly the files
\* a selector run returned leaves ValidateAtomicCommit with zero violations.
C19_SelectorDetectorAgree ==
    (op = "ValidateAtomicCommit" /\ err = "") => violations = <<>>

\* the file f is not listed itself and lies below a listed not-staged entry
UnderNotStagedDir(f) ==
    /\ f \notin NotStagedEntries
    /\ \E p \in NotStagedEntries : Below(f, p)

\* C21: in violation detection a dependency whose file is not listed itself
\* but lies under a listed not-staged directory is not-staged: when the file
\* is not in the staged set its violation is reported.
C21_DirectoryPrefix ==
    Validated =>
        \A f \in StagedGoFiles : \A s \in SymsOf(dg, f) :
            \A d \in Reach(dg, s) \cap DOMAIN dg.Symbols :
                (UnderNotStagedDir(FileOf(dg, d)) /\ FileOf(dg, d) \notin StagedFiles)
                => \E i \in 1..Len(violations) :
                     violations[i] = [ StagedFile |-> f, StagedSymbol |-> s,
                                       MissingFile |-> FileOf(dg, d), MissingSymbol |-> d ]

\* a violation whose missing file is known only through its directory
C21_Witness ==
    /\ Validated
    /\ \E i \in 1..Len(violations) : UnderNotStagedDir(violations[i].MissingFile)

\* f lists a symbol with a dependency defined in a file under a directory
\* that is listed as untracked as a whole
DependsOnUntrackedDir(g, f) ==
    \E s \in SymsOf(g, f) : \E d \in Reach(g, s) \cap DOMAIN g.Symbols :
        FileOf(g, d) # f /\ UnderNotStagedDir(FileOf(g, d))

\* C22: in selection a file under a directory listed as untracked counts as
\* a changeset member: a candidate that depends on it is not the base, and a
\* file that depends on it is not returned as a dependant.
C22_DirectoryMembership ==
    Selected =>
        \A i \in 1..Len(files) : ~DependsOnUntrackedDir(dg, files[i])

\* C27: after any sequence of AddDependency calls InEdges is the exact
\* inverse of OutEdges, adding an edge that is there changes nothing, and the
\* edge of the last call, a self-edge or one closing a cycle included, is
\* stored.
C27_InverseIndex ==
    /\ \A a, b \in GraphIds : b \in OutOf(dg, a) <=> a \in InOf(dg, b)
    /\ \A a, b \in GraphIds : b \in OutOf(dg, a) => AddDependency(dg, a, b) = dg
    /\ op = "AddDependency" => arg[2] \in OutOf(dg, arg[1])

\* a graph with a self-edge and a two-symbol cycle, after a repeated call
C27_Witness ==
    /\ op = "AddDependency"
    /\ \E a \in GraphIds : a \in OutOf(dg, a)
    /\ \E a, b \in GraphIds : a # b /\ b \in OutOf(dg, a) /\ a \in OutOf(dg, b)
    /\ Cardinality(Edges(dg)) = MaxEdges

\* the run reached the point where the overlay is built
OverlayBuilt ==
    /\ err # ErrStatus
    /\ \/ op = "ValidateAtomicCommit" /\ StagedGoFiles # {}
       \/ op = "FindCommittableSet" /\ CandidateFiles # {}

\* the entries that are partially staged: an index change and a worktree change
PartiallyStagedEntries ==
    { f \in DOMAIN statuses :
        statuses[f].Staging \notin { " ", "?" } /\ statuses[f].Worktree # " " }

\* C23: the overlay has an entry for a file exactly when the file is
\* partially staged, is a Go file and its index content could be read; the
\* entry is the index content; a failed read is no error of the operation.
C23_Overlay ==
    /\ OverlayBuilt =>
        /\ DOMAIN overlay =
             { AbsOf(f) : f \in { x \in PartiallyStagedEntries :
                                    HasSuffix(x, GoSuffix) /\ x \notin unreadable } }
        /\ \A f \in PartiallyStagedEntries :
             AbsOf(f) \in DOMAIN overlay => overlay[AbsOf(f)] = << "index", f >>
    /\ err \in { "", ErrStatus, ErrLoad }

\* two partially staged Go files, the index content of one cannot be read:
\* the other has its entry and the validation ends without error
C23_Witness ==
    /\ Validated
    /\ OverlayBuilt
    /\ \E f, g \in PartiallyStagedEntries :
         /\ HasSuffix(f, GoSuffix) /\ f \in unreadable /\ AbsOf(f) \notin DOMAIN overlay
         /\ g # f /\ AbsOf(g) \in DOMAIN overlay

\* C24: when the status cannot be obtained or the loaded packages have
\* compile errors the commands return the error with a nil result and no
\* graph: no list goes with an error.
C24_ErrorOrResult ==
    /\ err \in { "", ErrStatus, ErrLoad }
    /\ err # "" => (violations = <<>> /\ files = <<>> /\ dg = NewDependencyGraph)

\* a load error on a tree for which a completed validation reports violations
C24_Witness ==
    /\ op = "ValidateAtomicCommit"
    /\ err = ErrLoad
    /\ violations = <<>>
    /\ \E run \in ValidateRuns(statuses, pkgs) : run # <<>>

\* C26: in validation mode the exit status is 0 exactly when the validation
\* completed without violations and 1 otherwise; in committable mode it is 0
\* whenever the selection completed, also with an empty result, and 1 on an
\* error.
C26_ExitStatus ==
    /\ op = "ValidateAtomicCommit" =>
         /\ exitCode = 0 <=> (err = "" /\ violations = <<>>)
         /\ exitCode = 1 <=> (err # "" \/ violations # <<>>)
    /\ op = "FindCommittableSet" =>
         /\ exitCode = 0 <=> err = ""
         /\ exitCode = 1 <=> err # ""

\* a completed validation with violations exits with status 1
C26_Witness ==
    /\ Validated
    /\ violations # <<>>
    /\ exitCode = 1

\* the FuncDecls of the loaded packages, each with its package path
DeclsOfTree ==
    UNION { { [ pkg |-> pkgs[i].PkgPath, fn |-> fn ] : fn \in pkgs[i].Syntax }
            : i \in 1..Len(pkgs) }

IsMethod(fn) == ~fn.Recv.Nil

\* a declaration at module scope: declared in the package scope, or a method
ModuleScope(o) ==
    \/ o.Parent = "package"
    \/ \E d \in DeclsOfTree : IsMethod(d.fn) /\ d.fn.Obj = o

\* the command ran to its end on a graph built from the packages
GraphBuilt ==
    /\ op \in { "ValidateAtomicCommit", "FindCommittableSet" }
    /\ err = ""
    /\ dg # NewDependencyGraph

\* the ids a method can be known by: receiver type and name, or name alone
MethodIds(d) == { callerSymbolID(d.pkg, d.fn), symbolID(d.fn.Obj) }

\* C25: every method declared in a loaded package has a Symbol entry and is
\* listed for its file; when its file is staged and its body references a
\* symbol declared in a not-staged file, a violation names the method as the
\* staged symbol.
C25_MethodsRegistered ==
    GraphBuilt =>
        \A d \in { x \in DeclsOfTree : IsMethod(x.fn) } :
            /\ \E id \in MethodIds(d) :
                 /\ id \in DOMAIN dg.Symbols
                 /\ dg.Symbols[id].File = d.fn.Obj.File
                 /\ id \in Range(MapGet(dg.FileSyms, d.fn.Obj.File, <<>>))
            /\ (op = "ValidateAtomicCommit"
                  /\ Rel(AbsWorkDir, d.fn.Obj.File) \in StagedFiles) =>
                 \A o \in { x \in d.fn.Body : x.Parent = "package" } :
                    (/\ Rel(AbsWorkDir, o.File) \notin StagedFiles
                     /\ NotStagedFile(Rel(AbsWorkDir, o.File))) =>
                        \E i \in 1..Len(violations) :
                            /\ violations[i].StagedSymbol \in MethodIds(d)
                            /\ violations[i].StagedFile = Rel(AbsWorkDir, d.fn.Obj.File)
                            /\ violations[i].MissingSymbol = symbolID(o)
                            /\ violations[i].MissingFile = Rel(AbsWorkDir, o.File)

\* C28: a method's caller id is the id a reference to the method resolves
\* to, and when the body of f calls the method and the method's body
\* references the symbol S, every list TransitiveDeps(f) returns holds S.
C28_ThroughMethods ==
    GraphBuilt =>
        \A f, m \in DeclsOfTree :
            (IsMethod(m.fn) /\ m.fn.Obj \in f.fn.Body) =>
                /\ callerSymbolID(m.pkg, m.fn) = symbolID(m.fn.Obj)
                /\ \A o \in { x \in m.fn.Body : x.Parent = "package" } :
                     \A r \in TransitiveDeps(dg, callerSymbolID(f.pkg, f.fn)) :
                        symbolID(o) \in Range(r)

\* the references of the bodies to declarations at module scope
ModuleScopeUses ==
    UNION { { << callerSymbolID(d.pkg, d.fn), symbolID(o) >>
                : o \in { x \in d.fn.Body : ModuleScope(x) } }
            : d \in DeclsOfTree }

\* the graph of the run with these references as its forward edges
ModuleScopeGraph ==
    [ dg EXCEPT !.OutEdges =
        [ x \in { u[1] : u \in ModuleScopeUses } |->
            { u[2] : u \in { v \in ModuleScopeUses : v[1] = x } } ] ]

\* C29: an edge to a registered symbol comes from a reference to a
\* declaration at module scope, never from a local variable or a field of
\* the same name; every violation and every selection is what the
\* references to module-scope declarations alone give.
C29_LocalsMakeNoEdge ==
    GraphBuilt =>
        /\ \A from \in DOMAIN dg.OutEdges :
             \A to \in dg.OutEdges[from] \cap DOMAIN dg.Symbols :
                << from, to >> \in ModuleScopeUses
        /\ op = "ValidateAtomicCommit" =>
             \A i \in 1..Len(violations) :
                violations[i].MissingSymbol
                    \in Reach(ModuleScopeGraph, violations[i].StagedSymbol)
        /\ op = "FindCommittableSet" =>
             LET independent ==
                    { f \in CandidateFiles : Independent(ModuleScopeGraph, f) }
             IN independent # {} =>
                    /\ files # <<>>
                    /\ files[1] \in independent
                    /\ \A f \in independent : ~StrLess(f, files[1])

\* C30: the map GetAllFileStatus returns has one entry per record of the
\* listing, keyed by the record's path, with the record's two status
\* characters; it has no other entry.
C30_OneEntryPerRecord ==
    op = "GetAllFileStatus" =>
        LET l == arg[1]
        IN /\ DOMAIN statuses = { l[i].Path : i \in 1..Len(l) }
           /\ \A i \in 1..Len(l) :
                /\ l[i].Path \in DOMAIN statuses
                /\ statuses[l[i].Path] = FileStatus(ByteChar[l[i].X], ByteChar[l[i].Y])

====
